---- MODULE Spec2Model ----
(***************************************************************************)
(* Model of the in-memory task store of server.js: the array `tasks`, the  *)
(* counter `nextId` and the six Express route handlers that read or change *)
(* them.  Every handler runs to completion inside one event-loop turn, so  *)
(* each handler is one action.                                             *)
(***************************************************************************)
EXTENDS Integers, Sequences, FiniteSets, TLC

(* ---------------------------- bounds ----------------------------------- *)
\* Largest number of successful Creates and Updates of one run (and with it
\* the largest nextId - 2).
MaxWrites == 2
\* Number of clients that have a request in flight at the same time.
NClients == 3

(* ------------------------ JavaScript values ---------------------------- *)
\* A JavaScript/JSON value: its type tag and the payload of that type.
Undefined == [type |-> "undefined", b |-> FALSE, n |-> 0, s |-> ""]
Null == [type |-> "null", b |-> FALSE, n |-> 0, s |-> ""]
Bool(b) == [type |-> "boolean", b |-> b, n |-> 0, s |-> ""]
Num(n) == [type |-> "number", b |-> FALSE, n |-> n, s |-> ""]
Str(s) == [type |-> "string", b |-> FALSE, n |-> 0, s |-> s]

\* ToBoolean: false, 0, "", null and undefined are falsy.
Truthy(v) ==
  CASE v.type = "boolean" -> v.b
    [] v.type = "number" -> v.n # 0
    [] v.type = "string" -> v.s # ""
    [] OTHER -> FALSE

\* a || b
Or(a, b) == IF Truthy(a) THEN a ELSE b

\* The readings new Date() can give, in milliseconds since the epoch.  The
\* wall clock is outside the program: two readings may fall in the same
\* millisecond, and a later reading may be the smaller one when the clock
\* was set back in between.  Reading 0 is the one taken at startup, when
\* the seeded record is stamped.
Times == {0, 1}

\* new Date().toISOString() when the clock reads t milliseconds (t < 1000).
ToISOString(t) ==
  Str("1970-01-01T00:00:00."
      \o (IF t < 10 THEN "00" ELSE IF t < 100 THEN "0" ELSE "")
      \o ToString(t) \o "Z")

(* --------------------------- parseInt ---------------------------------- *)
\* The characters of a path segment are one-character strings; a character
\* that cannot be written in a string here goes by its code point ("U+2028").
DecDigits == <<"0", "1", "2", "3", "4", "5", "6", "7", "8", "9">>
HexDigits == DecDigits \o <<"a", "b", "c", "d", "e", "f">>
HexDigitsUpper == DecDigits \o <<"A", "B", "C", "D", "E", "F">>

\* White space and line terminators, which parseInt skips at the start.
WhiteSpace ==
  {" ", "\t", "\n", "\f", "\r", "U+000B", "U+00A0", "U+FEFF", "U+1680",
   "U+2000", "U+2001", "U+2002", "U+2003", "U+2004", "U+2005", "U+2006",
   "U+2007", "U+2008", "U+2009", "U+200A", "U+2028", "U+2029", "U+202F",
   "U+205F", "U+3000"}

\* Position of character c in the digit list ds, less one, or -1.
DigitIn(c, ds) ==
  LET hit == {i \in 1..Len(ds) : ds[i] = c}
  IN IF hit = {} THEN -1 ELSE (CHOOSE i \in hit : TRUE) - 1

\* Value of character c as a digit of the given radix, or -1; the letters
\* of radix 16 count in either case.
DigitVal(c, radix) ==
  IF radix = 16
  THEN IF DigitIn(c, HexDigits) >= 0 THEN DigitIn(c, HexDigits)
       ELSE DigitIn(c, HexDigitsUpper)
  ELSE DigitIn(c, DecDigits)

RECURSIVE SkipSpace(_)
SkipSpace(p) ==
  IF p # <<>> /\ Head(p) \in WhiteSpace THEN SkipSpace(Tail(p)) ELSE p

\* Longest prefix of p made of digits of the radix: <<count, value>>.
RECURSIVE DigitPrefix(_, _, _, _)
DigitPrefix(p, radix, count, acc) ==
  IF p # <<>> /\ DigitVal(Head(p), radix) >= 0
  THEN DigitPrefix(Tail(p), radix, count + 1,
                   acc * radix + DigitVal(Head(p), radix))
  ELSE <<count, acc>>

\* parseInt(string): white space skipped, optional sign, optional 0x, then the
\* longest digit prefix; NaN when that prefix is empty.
ParseInt(p) ==
  LET s1 == SkipSpace(p)
      neg == s1 # <<>> /\ Head(s1) = "-"
      s2 == IF s1 # <<>> /\ Head(s1) \in {"-", "+"} THEN Tail(s1) ELSE s1
      hex == Len(s2) >= 2 /\ s2[1] = "0" /\ s2[2] \in {"x", "X"}
      s3 == IF hex THEN Tail(Tail(s2)) ELSE s2
      dp == DigitPrefix(s3, IF hex THEN 16 ELSE 10, 0, 0)
  IN [nan |-> dp[1] = 0,
      n |-> IF dp[1] = 0 THEN 0 ELSE IF neg THEN 0 - dp[2] ELSE dp[2]]

\* t.id === id, for a task id and a parseInt result (NaN equals nothing).
IdEquals(taskId, id) == ~id.nan /\ taskId = id.n

(* ----------------------------- requests -------------------------------- *)
\* req.params.id of the requests sent: the decimal ids 1 to 3, a segment
\* that only starts with a digit, one without digits, and 2 written in
\* hexadecimal after a tab (the path /api/tasks/%090X2).
IdParams == {<<"1">>, <<"2">>, <<"3">>}
OddParams == {<<"1", "a">>, <<"x">>, <<"\t", "0", "X", "2">>}
Params == IdParams \cup OddParams

\* req.body; Undefined stands for a key that is absent from the JSON.  The
\* keys id and createdAt are keys a client may send although no handler
\* reads them.
Body(title, description, completed) ==
  [title |-> title, description |-> description, completed |-> completed,
   id |-> Undefined, createdAt |-> Undefined]

\* The body with the keys id and createdAt added.
WithExtras(body, id, createdAt) ==
  [body EXCEPT !.id = id, !.createdAt = createdAt]

EmptyBody == Body(Undefined, Undefined, Undefined)

Bodies ==
  {EmptyBody,
   Body(Str(""), Undefined, Undefined),
   Body(Str("a"), Undefined, Undefined),
   Body(Str("b"), Str("d"), Bool(TRUE)),
   Body(Undefined, Undefined, Bool(FALSE)),
   WithExtras(Body(Null, Undefined, Null), Num(7), Str("x"))}

Request(op, param, body) == [op |-> op, param |-> param, body |-> body]

(* ----------------------------- responses ------------------------------- *)
\* The status line and the JSON envelope; data holds the returned records
\* and total is <<n>> when the envelope carries a total.
Response(status, success, message, data, total) ==
  [status |-> status, success |-> success, message |-> message,
   data |-> data, total |-> total]

NotFoundResponse ==
  Response(404, Bool(FALSE), "Tarefa nao encontrada", <<>>, <<>>)

(* ------------------------------- state --------------------------------- *)
VARIABLES
  tasks,       \* the array `tasks`
  nextId,      \* the counter `nextId`
  writes,      \* history: the number of successful Creates and Updates
  req,         \* the request handled last
  res,         \* the response sent last
  createdIds,  \* history: the ids returned by the successful Creates, in order
  deletedIds,  \* history: the ids of the tasks deleted so far
  fresh,       \* history: the records returned by Creates whose id has not
               \* been the target of a successful Update or Delete since
  updatedIds,  \* history: the ids of the tasks of the collection that a
               \* successful Update has been applied to
  birth,       \* history: for every task of the collection, in array order,
               \* the id and createdAt it was seeded or created with
  clients      \* per concurrent client: the request it has sent, whether
               \* the server has handled it, and the response it got

vars == <<tasks, nextId, writes, req, res, createdIds, deletedIds, fresh,
          updatedIds, birth, clients>>

\* What the handlers of one-request-at-a-time runs read and write.
seqvars == <<tasks, nextId, writes, req, res, createdIds, deletedIds, fresh,
             updatedIds, birth>>

store == <<tasks, nextId>>
history == <<createdIds, deletedIds, fresh, updatedIds, birth>>

\* Before the first request: no request, no response.
NoRequest == Request("none", <<>>, EmptyBody)
NoResponse == Response(0, Undefined, "", <<>>, <<>>)

\* The connections of the concurrent clients.
Clients == 1..NClients
Idle == [stage |-> "idle", request |-> NoRequest, response |-> NoResponse]

\* The record seeded at startup.
SeedTask(now) ==
  [id |-> 1, title |-> Str("Tarefa Exemplo"),
   description |-> Str("Primeira tarefa"), completed |-> Bool(FALSE),
   createdAt |-> ToISOString(now), updatedAt |-> Undefined]

Init ==
  /\ writes = 0
  /\ tasks = <<SeedTask(0)>>
  /\ nextId = 2
  /\ req = NoRequest
  /\ res = NoResponse
  /\ createdIds = <<>>
  /\ deletedIds = {}
  /\ fresh = {}
  /\ updatedIds = {}
  /\ birth = <<[id |-> 1, createdAt |-> ToISOString(0)]>>
  /\ clients = [c \in Clients |-> Idle]

(* ------------------------- array operations ---------------------------- *)
\* Mutant of FindIndex: a miss yields the last index instead of -1.
FindIndexLastOnMiss(ts, id) ==
  LET hit == {i \in 1..Len(ts) : IdEquals(ts[i].id, id)}
  IN IF hit = {} THEN Len(ts) - 1
     ELSE (CHOOSE i \in hit : \A j \in hit : i <= j) - 1

\* tasks.findIndex(t => t.id === id): 0-based index of the first match, -1
\* when there is none.
FindIndex(ts, id) ==
  LET hit == {i \in 1..Len(ts) : IdEquals(ts[i].id, id)}
  IN IF hit = {} THEN -1
     ELSE (CHOOSE i \in hit : \A j \in hit : i <= j) - 1

\* Mutant of Find: looks the task up by position id - 1 instead of by id.
FindByPosition(ts, id) ==
  IF ~id.nan /\ id.n \in 1..Len(ts) THEN <<ts[id.n]>> ELSE <<>>

\* tasks.find(t => t.id === id): <<t>> for the first match, <<>> for
\* undefined.
Find(ts, id) ==
  LET hit == {i \in 1..Len(ts) : IdEquals(ts[i].id, id)}
  IN IF hit = {} THEN <<>>
     ELSE <<ts[CHOOSE i \in hit : \A j \in hit : i <= j]>>

\* Mutant of Push: the record is put at the front (unshift).
PushFront(ts, t) == <<t>> \o ts

\* tasks.push(t)
Push(ts, t) == Append(ts, t)

\* Mutant of Splice: splice(index) without a count drops the tail too.
SpliceToEnd(ts, index) == SubSeq(ts, 1, index)

\* tasks.splice(index, 1) for a 0-based index: the array afterwards.
Splice(ts, index) ==
  [i \in 1..(Len(ts) - 1) |-> IF i <= index THEN ts[i] ELSE ts[i + 1]]

\* Mutant of PostIncrement: the counter is read but never advanced.
NoIncrement(n) == <<n, n>>

\* Mutant of PostIncrement: ++nextId, the value after the increment.
PreIncrement(n) == <<n + 1, n + 1>>

\* nextId++ : <<value of the expression, nextId afterwards>>
PostIncrement(n) == <<n, n + 1>>

(* ---------------------------- the handlers ----------------------------- *)
\* Mutant of TitleMissing: only an absent title is refused.
TitleAbsent(title) == title = Undefined

\* if (!title)
TitleMissing(title) == ~Truthy(title)

\* Mutant of NewTask: completed is always false.
NewTaskNeverCompleted(id, body, now) ==
  [id |-> id, title |-> body.title,
   description |-> Or(body.description, Str("")),
   completed |-> Bool(FALSE),
   createdAt |-> ToISOString(now), updatedAt |-> Undefined]

\* Mutant of NewTask: the new record gets an updatedAt as well.
NewTaskStamped(id, body, now) ==
  [id |-> id, title |-> body.title,
   description |-> Or(body.description, Str("")),
   completed |-> Or(body.completed, Bool(FALSE)),
   createdAt |-> ToISOString(now), updatedAt |-> ToISOString(now)]

\* The object literal of POST /api/tasks.
NewTask(id, body, now) ==
  [id |-> id, title |-> body.title,
   description |-> Or(body.description, Str("")),
   completed |-> Or(body.completed, Bool(FALSE)),
   createdAt |-> ToISOString(now), updatedAt |-> Undefined]

\* Mutant of MergeTask: a field is merged when it is truthy.
MergeTaskTruthy(task, body, now) ==
  [task EXCEPT
     !.title = IF Truthy(body.title) THEN body.title ELSE @,
     !.description = IF Truthy(body.description) THEN body.description ELSE @,
     !.completed = IF Truthy(body.completed) THEN body.completed ELSE @,
     !.updatedAt = ToISOString(now)]

\* Mutant of MergeTask: the whole body is spread into the task
\* (...req.body), so id and createdAt sent by the client are written too.
MergeTaskWholeBody(task, body, now) ==
  [task EXCEPT
     !.id = IF body.id.type = "number" THEN body.id.n ELSE @,
     !.createdAt = IF body.createdAt # Undefined THEN body.createdAt ELSE @,
     !.title = IF body.title # Undefined THEN body.title ELSE @,
     !.description =
        IF body.description # Undefined THEN body.description ELSE @,
     !.completed = IF body.completed # Undefined THEN body.completed ELSE @,
     !.updatedAt = ToISOString(now)]

\* The spread of PUT /api/tasks/:id: a field of the body replaces the
\* task's when it is not undefined; updatedAt is always written.
MergeTask(task, body, now) ==
  [task EXCEPT
     !.title = IF body.title # Undefined THEN body.title ELSE @,
     !.description =
        IF body.description # Undefined THEN body.description ELSE @,
     !.completed = IF body.completed # Undefined THEN body.completed ELSE @,
     !.updatedAt = ToISOString(now)]

\* The handlers.  Each is a synchronous function: it has no await and
\* starts no callback, so the event loop runs it from its first line to its
\* response before it takes up any other request.

\* GET /
HandleRoot ==
  /\ req' = Request("root", <<>>, EmptyBody)
  /\ res' = Response(200, Undefined, "API de Gerenciamento de Tarefas",
                     <<>>, <<>>)
  /\ UNCHANGED <<store, writes, history>>

\* Mutant of HandleCreateRejected: nextId++ is evaluated before the title
\* check, so a refused Create uses up an id.
HandleCreateRejectedConsumesId(body) ==
  /\ TitleMissing(body.title)
  /\ nextId <= MaxWrites + 1
  /\ nextId' = PostIncrement(nextId)[2]
  /\ req' = Request("create", <<>>, body)
  /\ res' = Response(400, Bool(FALSE), "O campo \"title\" e obrigatorio",
                     <<>>, <<>>)
  /\ UNCHANGED <<tasks, writes, history>>

\* POST /api/tasks, title missing: the early return.
HandleCreateRejected(body) ==
  /\ TitleMissing(body.title)
  /\ req' = Request("create", <<>>, body)
  /\ res' = Response(400, Bool(FALSE), "O campo \"title\" e obrigatorio",
                     <<>>, <<>>)
  /\ UNCHANGED <<store, writes, history>>

\* POST /api/tasks
HandleCreate(body) ==
  /\ ~TitleMissing(body.title)
  /\ writes < MaxWrites
  /\ \E now \in Times :
       LET inc == PostIncrement(nextId)
           newTask == NewTask(inc[1], body, now)
       IN /\ writes' = writes + 1
          /\ nextId' = inc[2]
          /\ tasks' = Push(tasks, newTask)
          /\ req' = Request("create", <<>>, body)
          /\ res' = Response(201, Bool(TRUE), "Tarefa criada com sucesso",
                             <<newTask>>, <<>>)
          /\ createdIds' = Append(createdIds, newTask.id)
          /\ fresh' = fresh \cup {newTask}
          /\ birth' = Append(birth, [id |-> newTask.id,
                                     createdAt |-> newTask.createdAt])
  /\ UNCHANGED <<deletedIds, updatedIds>>

\* GET /api/tasks
HandleList ==
  /\ req' = Request("list", <<>>, EmptyBody)
  /\ res' = Response(200, Bool(TRUE), "", tasks, <<Len(tasks)>>)
  /\ UNCHANGED <<store, writes, history>>

\* GET /api/tasks/:id
HandleGet(param) ==
  LET id == ParseInt(param)
      task == Find(tasks, id)
  IN /\ req' = Request("get", param, EmptyBody)
     /\ res' = IF task = <<>>
               THEN NotFoundResponse
               ELSE Response(200, Bool(TRUE), "", task, <<>>)
     /\ UNCHANGED <<store, writes, history>>

\* PUT /api/tasks/:id, id found
HandleUpdate(param, body) ==
  LET id == ParseInt(param)
      taskIndex == FindIndex(tasks, id)
  IN /\ taskIndex # -1
     /\ writes < MaxWrites
     /\ writes' = writes + 1
     /\ \E now \in Times :
          tasks' = [tasks EXCEPT ![taskIndex + 1] = MergeTask(@, body, now)]
     /\ req' = Request("update", param, body)
     /\ res' = Response(200, Bool(TRUE), "Tarefa atualizada com sucesso",
                        <<tasks'[taskIndex + 1]>>, <<>>)
     /\ fresh' = {r \in fresh : r.id # tasks[taskIndex + 1].id}
     /\ updatedIds' = updatedIds \cup {tasks[taskIndex + 1].id}
     /\ UNCHANGED <<nextId, createdIds, deletedIds, birth>>

\* PUT /api/tasks/:id, id not found: the early return.
HandleUpdateNotFound(param, body) ==
  LET id == ParseInt(param)
      taskIndex == FindIndex(tasks, id)
  IN /\ taskIndex = -1
     /\ req' = Request("update", param, body)
     /\ res' = NotFoundResponse
     /\ UNCHANGED <<store, writes, history>>

\* DELETE /api/tasks/:id, id found
HandleDelete(param) ==
  LET id == ParseInt(param)
      taskIndex == FindIndex(tasks, id)
  IN /\ taskIndex # -1
     /\ tasks' = Splice(tasks, taskIndex)
     /\ req' = Request("delete", param, EmptyBody)
     /\ res' = Response(200, Bool(TRUE), "Tarefa deletada com sucesso",
                        <<tasks[taskIndex + 1]>>, <<>>)
     /\ deletedIds' = deletedIds \cup {tasks[taskIndex + 1].id}
     /\ fresh' = {r \in fresh : r.id # tasks[taskIndex + 1].id}
     /\ updatedIds' = updatedIds \ {tasks[taskIndex + 1].id}
     /\ birth' = SubSeq(birth, 1, taskIndex)
                    \o SubSeq(birth, taskIndex + 2, Len(birth))
     /\ UNCHANGED <<nextId, writes, createdIds>>

\* DELETE /api/tasks/:id, id not found: the early return.
HandleDeleteNotFound(param) ==
  LET id == ParseInt(param)
      taskIndex == FindIndex(tasks, id)
  IN /\ taskIndex = -1
     /\ req' = Request("delete", param, EmptyBody)
     /\ res' = NotFoundResponse
     /\ UNCHANGED <<store, writes, history>>

(* ------------------- one request at a time ----------------------------- *)
Root == HandleRoot /\ UNCHANGED clients

CreateRejected ==
  \E body \in Bodies : HandleCreateRejected(body) /\ UNCHANGED clients

Create ==
  \E body \in Bodies : HandleCreate(body) /\ UNCHANGED clients

List == HandleList /\ UNCHANGED clients

Get ==
  \E param \in Params : HandleGet(param) /\ UNCHANGED clients

Update ==
  \E param \in Params, body \in Bodies :
    HandleUpdate(param, body) /\ UNCHANGED clients

UpdateNotFound ==
  \E param \in Params, body \in Bodies :
    HandleUpdateNotFound(param, body) /\ UNCHANGED clients

Delete ==
  \E param \in Params : HandleDelete(param) /\ UNCHANGED clients

DeleteNotFound ==
  \E param \in Params : HandleDeleteNotFound(param) /\ UNCHANGED clients

Next ==
  \/ Root
  \/ CreateRejected
  \/ Create
  \/ List
  \/ Get
  \/ Update
  \/ UpdateNotFound
  \/ Delete
  \/ DeleteNotFound

Spec == Init /\ [][Next]_vars

(* --------------------- concurrent clients ------------------------------ *)
\* The requests the concurrent clients send, one each.
ConcRequests ==
  {Request("root", <<>>, EmptyBody),
   Request("list", <<>>, EmptyBody),
   Request("create", <<>>, Body(Str("a"), Undefined, Undefined)),
   Request("create", <<>>, EmptyBody),
   Request("get", <<"2">>, EmptyBody),
   Request("update", <<"2">>, Body(Undefined, Undefined, Bool(FALSE))),
   Request("delete", <<"1">>, EmptyBody)}

\* The request of client c reaches the server while the requests of other
\* clients may be waiting for the event loop.
Arrive ==
  \E c \in Clients, r \in ConcRequests :
    /\ clients[c].stage = "idle"
    /\ clients' = [clients EXCEPT ![c] = [stage |-> "waiting",
                                          request |-> r,
                                          response |-> NoResponse]]
    /\ UNCHANGED seqvars

\* Client c is waiting with a request for the route op.
Waiting(c, op) ==
  /\ clients[c].stage = "waiting"
  /\ clients[c].request.op = op

\* The handler has run for the request of client c and res.json has sent
\* the response.
Answered(c) ==
  clients' = [clients EXCEPT ![c].stage = "answered", ![c].response = res']

\* The event loop takes the request of one waiting client and runs its
\* handler to the end.
ServeRoot ==
  \E c \in Clients : Waiting(c, "root") /\ HandleRoot /\ Answered(c)

ServeCreateRejected ==
  \E c \in Clients :
    /\ Waiting(c, "create")
    /\ HandleCreateRejected(clients[c].request.body)
    /\ Answered(c)

ServeCreate ==
  \E c \in Clients :
    /\ Waiting(c, "create")
    /\ HandleCreate(clients[c].request.body)
    /\ Answered(c)

ServeList ==
  \E c \in Clients : Waiting(c, "list") /\ HandleList /\ Answered(c)

ServeGet ==
  \E c \in Clients :
    /\ Waiting(c, "get")
    /\ HandleGet(clients[c].request.param)
    /\ Answered(c)

ServeUpdate ==
  \E c \in Clients :
    /\ Waiting(c, "update")
    /\ HandleUpdate(clients[c].request.param, clients[c].request.body)
    /\ Answered(c)

ServeUpdateNotFound ==
  \E c \in Clients :
    /\ Waiting(c, "update")
    /\ HandleUpdateNotFound(clients[c].request.param, clients[c].request.body)
    /\ Answered(c)

ServeDelete ==
  \E c \in Clients :
    /\ Waiting(c, "delete")
    /\ HandleDelete(clients[c].request.param)
    /\ Answered(c)

ServeDeleteNotFound ==
  \E c \in Clients :
    /\ Waiting(c, "delete")
    /\ HandleDeleteNotFound(clients[c].request.param)
    /\ Answered(c)

NextConc ==
  \/ Arrive
  \/ ServeRoot
  \/ ServeCreateRejected
  \/ ServeCreate
  \/ ServeList
  \/ ServeGet
  \/ ServeUpdate
  \/ ServeUpdateNotFound
  \/ ServeDelete
  \/ ServeDeleteNotFound

SpecConc == Init /\ [][NextConc]_vars

(* ------------------------------ claims --------------------------------- *)
\* The ids of the records of an array, in array order.
Ids(ts) == [i \in 1..Len(ts) |-> ts[i].id]

\* The positions of ts whose record has the id a path segment parses to.
Matches(ts, param) ==
  {i \in 1..Len(ts) :
     /\ ~ParseInt(param).nan
     /\ ts[i].id = ParseInt(param).n}

\* The values JavaScript treats as false.
Falsy == {Undefined, Null, Str(""), Num(0), Bool(FALSE)}

\* Every id handed out so far, the seed's included.
AssignedIds == {1} \cup {createdIds[k] : k \in 1..Len(createdIds)}

\* C1: in every reachable state no two tasks of the collection have the
\* same id.
C1_UniqueIds ==
  \A i, j \in 1..Len(tasks) : i # j => tasks[i].id # tasks[j].id

\* Three tasks live at once, after a Delete has happened too.
C1_Witness ==
  /\ Len(tasks) >= 2
  /\ Len(createdIds) = 2
  /\ deletedIds # {}

\* C2: the id a successful Create returns is strictly greater than every id
\* assigned before it (the seed's id 1 included, deleted tasks included), so
\* it is never the id of a deleted task.
C2_IdsNeverReused ==
  [][(req'.op = "create" /\ res'.status = 201)
       => /\ \A a \in AssignedIds : res'.data[1].id > a
          /\ res'.data[1].id \notin deletedIds]_vars

\* A Create succeeded after the task created before it had been deleted.
C2_Witness ==
  /\ req.op = "create"
  /\ res.status = 201
  /\ Len(createdIds) = 2
  /\ createdIds[1] \in deletedIds

\* C3: a Create whose title is absent, "" or otherwise falsy is answered 400
\* with success:false and leaves tasks and nextId as they were.
C3_CreateRejectedNoEffect ==
  [][(req'.op = "create" /\ req'.body.title \in Falsy)
       => /\ res'.status = 400
          /\ res'.success = Bool(FALSE)
          /\ tasks' = tasks
          /\ nextId' = nextId]_vars

\* A Create with title "" was refused after an earlier Create had succeeded.
C3_Witness ==
  /\ req.op = "create"
  /\ req.body.title = Str("")
  /\ res.status = 400
  /\ Len(createdIds) >= 1

\* C4: an Update or Delete whose id matches no task of the collection is
\* answered 404 with success:false and leaves tasks (every field, updatedAt
\* included) and nextId as they were.
C4_NotFoundNoEffect ==
  [][(req'.op \in {"update", "delete"} /\ Matches(tasks, req'.param) = {})
       => /\ res'.status = 404
          /\ res'.success = Bool(FALSE)
          /\ tasks' = tasks
          /\ nextId' = nextId]_vars

\* An Update aimed at the id of a task deleted earlier was answered 404 while
\* other tasks are in the collection.
C4_Witness ==
  /\ req.op = "update"
  /\ res.status = 404
  /\ ~ParseInt(req.param).nan
  /\ ParseInt(req.param).n \in deletedIds
  /\ tasks # <<>>

\* The record an Update with this body must leave: the fields present in
\* the body replaced, the others kept.
Merged(old, new, body) ==
  /\ new.id = old.id
  /\ new.createdAt = old.createdAt
  /\ new.title = (IF body.title = Undefined THEN old.title ELSE body.title)
  /\ new.description =
       (IF body.description = Undefined THEN old.description
        ELSE body.description)
  /\ new.completed =
       (IF body.completed = Undefined THEN old.completed ELSE body.completed)
  /\ new.updatedAt.type = "string"

\* C5: an Update of an existing task answers 200 with the updated record,
\* sets every field present in the body (falsy values too), keeps every
\* absent field, sets updatedAt, and changes neither the task's position,
\* any other task, the length of the collection nor nextId.
C5_UpdateMergesPresentFields ==
  [][(req'.op = "update" /\ Matches(tasks, req'.param) # {})
       => \E i \in Matches(tasks, req'.param) :
            /\ res'.status = 200
            /\ res'.success = Bool(TRUE)
            /\ Len(tasks') = Len(tasks)
            /\ nextId' = nextId
            /\ \A j \in 1..Len(tasks) : j # i => tasks'[j] = tasks[j]
            /\ Merged(tasks[i], tasks'[i], req'.body)
            /\ res'.data = <<tasks'[i]>>]_vars

\* An Update {completed:false} was applied to the task created just before
\* with title "b", a description and completed:true: completed is now false
\* and the other fields are kept.
C5_Witness ==
  /\ req.op = "update"
  /\ res.status = 200
  /\ req.body = Body(Undefined, Undefined, Bool(FALSE))
  /\ res.data[1].id = 2
  /\ res.data[1].title = Str("b")
  /\ res.data[1].description = Str("d")
  /\ res.data[1].completed = Bool(FALSE)
  /\ res.data[1].updatedAt # Undefined
  /\ writes = 2

\* C6: a Delete of an existing task answers 200 with the record as it was,
\* leaves the collection without exactly that record (the others in their
\* order, one record fewer), and every later Get, Update or Delete of a
\* deleted id is answered 404.
C6_DeleteRemovesExactlyOne ==
  [][/\ (req'.op = "delete" /\ Matches(tasks, req'.param) # {})
          => \E i \in Matches(tasks, req'.param) :
               /\ res'.status = 200
               /\ res'.success = Bool(TRUE)
               /\ res'.data = <<tasks[i]>>
               /\ Len(tasks') = Len(tasks) - 1
               /\ tasks' = SubSeq(tasks, 1, i - 1)
                             \o SubSeq(tasks, i + 1, Len(tasks))
     /\ (/\ req'.op \in {"get", "update", "delete"}
         /\ ~ParseInt(req'.param).nan
         /\ ParseInt(req'.param).n \in deletedIds)
          => res'.status = 404]_vars

\* The middle one of three tasks was deleted.
C6_Witness ==
  /\ req.op = "delete"
  /\ res.status = 200
  /\ res.data[1].id = 2
  /\ Ids(tasks) = <<1, 3>>

\* C7: List answers 200 with success:true, all tasks of the collection in
\* their order and total equal to the number of records; after N Creates
\* and no Delete these are N+1 records, the seed first and the created
\* tasks in creation order.
C7_ListReturnsAllInOrder ==
  req.op = "list"
    => /\ res.status = 200
       /\ res.success = Bool(TRUE)
       /\ res.data = tasks
       /\ res.total = <<Len(res.data)>>
       /\ deletedIds = {}
            => /\ Len(res.data) = Len(createdIds) + 1
               /\ Ids(res.data) = <<1>> \o createdIds

\* List was called after two Creates and no Delete.
C7_Witness ==
  /\ req.op = "list"
  /\ Len(createdIds) = 2
  /\ deletedIds = {}
  /\ res.total = <<3>>

\* C8: a Get of the id a Create returned, with no Update or Delete of that
\* id in between, answers 200 with a record equal to the one Create
\* returned.
C8_CreateGetRoundTrip ==
  [][req'.op = "get"
       => \A r \in fresh :
            (~ParseInt(req'.param).nan /\ ParseInt(req'.param).n = r.id)
              => /\ res'.status = 200
                 /\ res'.success = Bool(TRUE)
                 /\ res'.data = <<r>>]_vars

\* A created task was fetched after the seed had been deleted and another
\* task updated in between.
C8_Witness ==
  /\ req.op = "get"
  /\ res.status = 200
  /\ res.data[1] \in fresh
  /\ deletedIds # {}
  /\ Len(tasks) = 1

\* C9: a Create with a non-empty title answers 201 and appends one record
\* at the end: the title as sent, the description as sent or "" when
\* absent, completed as sent or false when absent, a createdAt and no
\* updatedAt; the tasks already there are unchanged.
C9_CreateAppendsRecord ==
  [][(/\ req'.op = "create"
      /\ req'.body.title.type = "string"
      /\ req'.body.title.s # ""
      /\ req'.body.description.type \in {"undefined", "string"}
      /\ req'.body.completed.type \in {"undefined", "boolean"})
       => /\ res'.status = 201
          /\ res'.success = Bool(TRUE)
          /\ Len(tasks') = Len(tasks) + 1
          /\ SubSeq(tasks', 1, Len(tasks)) = tasks
          /\ LET r == tasks'[Len(tasks')]
             IN /\ r.title = req'.body.title
                /\ r.description =
                     (IF req'.body.description = Undefined THEN Str("")
                      ELSE req'.body.description)
                /\ r.completed =
                     (IF req'.body.completed = Undefined THEN Bool(FALSE)
                      ELSE req'.body.completed)
                /\ r.createdAt.type = "string"
                /\ r.updatedAt = Undefined
                /\ res'.data = <<r>>]_vars

\* A Create with a description and completed:true succeeded while an
\* updated task was in the collection.
C9_Witness ==
  /\ req.op = "create"
  /\ res.status = 201
  /\ req.body.completed = Bool(TRUE)
  /\ res.data[1].completed = Bool(TRUE)
  /\ res.data[1].description = Str("d")
  /\ \E i \in 1..Len(tasks) : tasks[i].updatedAt # Undefined

\* C10: the k-th successful Create returns id k+1, whatever other requests
\* are handled in between.
C10_SequentialIds ==
  \A k \in 1..Len(createdIds) : createdIds[k] = k + 1

\* Two Creates succeeded with a Delete and a refused request around them.
C10_Witness ==
  /\ Len(createdIds) = 2
  /\ deletedIds # {}
  /\ res.status \in {400, 404}

\* C11: a task of the collection has an updatedAt exactly when a successful
\* Update has been applied to it since it was seeded or created.
C11_UpdatedAtIffUpdated ==
  \A i \in 1..Len(tasks) :
    (tasks[i].updatedAt # Undefined) <=> (tasks[i].id \in updatedIds)

\* An updated task and a never-updated task are in the collection together,
\* right after a request that failed; the Update read the clock in the
\* millisecond the task was created in.
C11_Witness ==
  /\ \E i, j \in 1..Len(tasks) :
       /\ tasks[i].id \in updatedIds
       /\ tasks[i].updatedAt = tasks[i].createdAt
       /\ tasks[j].id \notin updatedIds
       /\ tasks[j].updatedAt = Undefined
  /\ res.status \in {400, 404}

\* C12: every task of the collection has the id and the createdAt it was
\* seeded or created with, whatever requests and request bodies came since
\* (Update bodies with the keys id and createdAt included).
C12_IdAndCreatedAtImmutable ==
  /\ Len(birth) = Len(tasks)
  /\ \A i \in 1..Len(tasks) :
       /\ tasks[i].id = birth[i].id
       /\ tasks[i].createdAt = birth[i].createdAt

\* A task was updated with a body that carries id and createdAt, at a
\* reading of the clock below the one it was created at.
C12_Witness ==
  /\ req.op = "update"
  /\ res.status = 200
  /\ req.body.id = Num(7)
  /\ req.body.createdAt = Str("x")
  /\ res.data[1].id = 2
  /\ res.data[1].createdAt = ToISOString(1)
  /\ res.data[1].updatedAt = ToISOString(0)

\* C13: in every reachable state every task of the collection has a title
\* that is a non-empty string.
C13_TitleNonEmptyString ==
  \A i \in 1..Len(tasks) :
    /\ tasks[i].title.type = "string"
    /\ tasks[i].title.s # ""

\* A path segment that is a decimal integer: digits only, at least one.
IsDecimal(param) ==
  /\ param # <<>>
  /\ \A k \in 1..Len(param) : \E d \in 1..Len(DecDigits) : param[k] = DecDigits[d]

\* The number a decimal path segment denotes.
RECURSIVE DecimalValue(_)
DecimalValue(param) ==
  IF param = <<>> THEN 0
  ELSE 10 * DecimalValue(SubSeq(param, 1, Len(param) - 1))
         + ((CHOOSE d \in 1..Len(DecDigits) :
               param[Len(param)] = DecDigits[d]) - 1)

\* C15: Get answers 200 with the task when the path segment is the integer
\* id of a task of the collection, and Get, Update and Delete answer 404 for
\* every path segment that is not numeric ("1a"), never returning or
\* touching a task for it.
C15_NonNumericIdNotFound ==
  [][/\ (/\ req'.op = "get"
         /\ IsDecimal(req'.param)
         /\ \E i \in 1..Len(tasks) : tasks[i].id = DecimalValue(req'.param))
          => /\ res'.status = 200
             /\ Len(res'.data) = 1
             /\ res'.data[1].id = DecimalValue(req'.param)
     /\ (req'.op \in {"get", "update", "delete"} /\ ~IsDecimal(req'.param))
          => /\ res'.status = 404
             /\ res'.data = <<>>
             /\ tasks' = tasks]_vars

\* C17: in every reachable state the completed field of every task of the
\* collection is a boolean.
C17_CompletedIsBoolean ==
  \A i \in 1..Len(tasks) : tasks[i].completed.type = "boolean"

\* C16: List, Get, GET / and every request that fails leave tasks and
\* nextId unchanged; tasks changes only in a successful Create, Update or
\* Delete, and nextId only in a successful Create, where it grows by 1.
C16_ReadsAndFailuresNoEffect ==
  [][/\ (req'.op \in {"list", "get", "root"} \/ res'.status \notin {200, 201})
          => (tasks' = tasks /\ nextId' = nextId)
     /\ (tasks' # tasks)
          => (/\ req'.op \in {"create", "update", "delete"}
              /\ res'.status = (IF req'.op = "create" THEN 201 ELSE 200))
     /\ (nextId' # nextId)
          => (/\ req'.op = "create"
              /\ res'.status = 201
              /\ nextId' = nextId + 1)]_vars

\* A Get that found a task was answered after two earlier changes of the
\* store, which it left as it was.
C16_Witness ==
  /\ req.op = "get"
  /\ res.status = 200
  /\ res.data[1].updatedAt # Undefined
  /\ nextId = 3
  /\ writes = 2

\* C18: in every reachable state the ids of the collection are strictly
\* increasing in array order.
C18_OrderedById ==
  \A i, j \in 1..Len(tasks) : i < j => tasks[i].id < tasks[j].id

\* After two Creates and the Delete of the task between two others, the
\* collection holds ids 1 and 3 in that order.
C18_Witness ==
  /\ Ids(tasks) = <<1, 3>>
  /\ deletedIds = {2}
  /\ req.op # "delete"

\* A step of the one-request-at-a-time server, for any request.
SequentialStep ==
  \/ HandleRoot
  \/ \E body \in Bodies : HandleCreateRejected(body)
  \/ \E body \in Bodies : HandleCreate(body)
  \/ HandleList
  \/ \E param \in Params : HandleGet(param)
  \/ \E param \in Params, body \in Bodies : HandleUpdate(param, body)
  \/ \E param \in Params, body \in Bodies : HandleUpdateNotFound(param, body)
  \/ \E param \in Params : HandleDelete(param)
  \/ \E param \in Params : HandleDeleteNotFound(param)

\* No two clients were answered 201 with the same id.
DistinctCreatedIds ==
  \A c, d \in Clients :
    (/\ c # d
     /\ clients[c].response.status = 201
     /\ clients[d].response.status = 201)
      => clients[c].response.data[1].id # clients[d].response.data[1].id

\* An Update or Delete answered 200 acted on the task its request names.
ActedOnRequestedTask ==
  \A c \in Clients :
    (/\ clients[c].request.op \in {"update", "delete"}
     /\ clients[c].response.status = 200)
      => /\ ~ParseInt(clients[c].request.param).nan
         /\ clients[c].response.data[1].id
              = ParseInt(clients[c].request.param).n

\* C14: with requests of several clients in flight at once, every change
\* of the store and every response is one whole step of the
\* one-request-at-a-time server; two concurrent Creates never get the same
\* id and an Update or Delete never acts on another task than the one it
\* looked up.
C14_RequestsSerialized ==
  /\ [](DistinctCreatedIds /\ ActedOnRequestedTask)
  /\ [][SequentialStep]_seqvars

\* Three requests were in flight together; both Creates were answered 201
\* and the Delete of task 1, served between them or after, removed task 1.
C14_Witness ==
  /\ \E c, d, e \in Clients :
       /\ c # d
       /\ clients[c].response.status = 201
       /\ clients[d].response.status = 201
       /\ clients[d].response.data[1].id = 3
       /\ clients[e].request.op = "delete"
       /\ clients[e].response.status = 200
  /\ Ids(tasks) = <<2, 3>>

====
